---- MODULE Spec2Model ----
(***************************************************************************)
(* Video ingestion and playback controller of the vehicle counter:         *)
(* VideoProcessor (the QThread worker of src/app.py), the control surface  *)
(* of CarCounterApp that starts, pauses and stops it, and the dedicated    *)
(* ASFProcessingThread running YOLOASFProcessor.process_video.             *)
(*                                                                         *)
(* Units: playback_speed and _skip_residual are kept in halves (2 = 1.0x,  *)
(* 3 = 1.5x), which is exact for every entry of the speed combo box.       *)
(***************************************************************************)
EXTENDS Integers, Sequences, FiniteSets, TLC

(***************************************************************************)
(* Bounds of the model.                                                    *)
(***************************************************************************)
\* Largest number of frames a small source holds.
MaxFrames == 5
\* Frames of the long file of the progress and skip-accounting scenarios.
LongFrames == 100
\* Largest number of transient (recoverable) read failures of a source.
MaxGlitches == 1

\* Workers the user may start in one behaviour.
MaxRuns == 2

\* Vehicles the counter may hold.
MaxCount == 1

\* Longest list of classes a configuration is given.
MaxClasses == 2

(***************************************************************************)
(* Program constants.                                                      *)
(***************************************************************************)
\* max_failures: consecutive failures before the worker gives up.
max_failures == 30
\* Value reported as progress when the frame count is unknown.
LiveProgress == 50
\* confidence_slider.setValue(25): the slider before the user moves it.
SliderDefault == 25

(***************************************************************************)
(* Source identifiers.  A Python str is a sequence of characters; the      *)
(* webcam index is an int.  Both are carried in one record so that the     *)
(* isinstance test of the source can be modelled.                          *)
(***************************************************************************)
Str(s) == [isStr |-> TRUE, chars |-> s, int |-> 0]
IntId(n) == [isStr |-> FALSE, chars |-> <<>>, int |-> n]

RtspUrl == Str(<<"r","t","s","p",":","/","/","h","/","s">>)
HttpUrl == Str(<<"h","t","t","p",":","/","/","h">>)
HttpsUrl == Str(<<"h","t","t","p","s",":","/","/","h">>)
RtmpUrl == Str(<<"r","t","m","p",":","/","/","h">>)
StrZero == Str(<<"0">>)
IntZero == IntId(0)
ClipMp4 == Str(<<"c",".","m","p","4">>)
ClipWmv == Str(<<"c",".","w","m","v">>)
ClipAsfUpper == Str(<<"C",".","A","S","F">>)
ZeroClipMp4 == Str(<<"0","c",".","m","p","4">>)
ZeroClipWmv == Str(<<"0","c",".","w","m","v">>)

Identifiers ==
  { RtspUrl, HttpUrl, HttpsUrl, RtmpUrl, StrZero, IntZero,
    ClipMp4, ClipWmv, ClipAsfUpper, ZeroClipMp4, ZeroClipWmv }

\* str.startswith(prefix)
StartsWith(s, prefix) ==
  /\ Len(s) >= Len(prefix)
  /\ SubSeq(s, 1, Len(prefix)) = prefix

\* str.endswith(suffix)
EndsWith(s, suffix) ==
  /\ Len(s) >= Len(suffix)
  /\ SubSeq(s, Len(s) - Len(suffix) + 1, Len(s)) = suffix

\* str.lower() on the characters that occur in the identifiers
LowerChar(c) ==
  CASE c = "A" -> "a"
    [] c = "C" -> "c"
    [] c = "F" -> "f"
    [] c = "S" -> "s"
    [] c = "M" -> "m"
    [] c = "V" -> "v"
    [] c = "W" -> "w"
    [] OTHER -> c

Lower(s) == [i \in 1..Len(s) |-> LowerChar(s[i])]

LiveSchemes ==
  { <<"r","t","s","p",":","/","/">>, <<"h","t","t","p",":","/","/">>,
    <<"h","t","t","p","s",":","/","/">>, <<"r","t","m","p",":","/","/">> }

AsfSuffixes == { <<".","a","s","f">>, <<".","w","m","v">> }

VideoSuffixes ==
  { <<".","m","p","4">>, <<".","a","v","i">>, <<".","m","o","v">>,
    <<".","m","k","v">>, <<".","w","m","v">>, <<".","f","l","v">>,
    <<".","w","e","b","m">>, <<".","a","s","f">> }

\* video_path == 0 evaluated on a str: a str never equals an int.
StrEqualsInt(p, n) == (~p.isStr) /\ p.int = n

\* VideoProcessor._is_live_stream
IsLiveStream(p) ==
  IF p.isStr
  THEN \/ \E pre \in LiveSchemes : StartsWith(p.chars, pre)
       \/ StartsWith(p.chars, <<"0">>)
       \/ StrEqualsInt(p, 0)
  ELSE FALSE

\* VideoProcessor._is_asf_file
IsAsfFile(p) ==
  IF p.isStr
  THEN \E suf \in AsfSuffixes : EndsWith(Lower(p.chars), suf)
  ELSE FALSE

\* CarCounterApp._is_video_file
IsVideoFile(p) ==
  /\ p.isStr
  /\ Len(p.chars) > 0
  /\ \E suf \in VideoSuffixes : EndsWith(Lower(p.chars), suf)


(***************************************************************************)
(* State.                                                                  *)
(***************************************************************************)
VARIABLES
  \* environment: the source chosen in the window and what it holds
  current_video,        \* CarCounterApp.current_video
  speed_choice,         \* speed_combo entry, in halves
  src_avail,            \* frames the source can deliver
  src_reported,         \* CAP_PROP_FRAME_COUNT of the source
  src_glitches,         \* transient read failures the source may produce
  max_runs,             \* times the user presses Start
  conf_choice,          \* confidence_slider.value(), in hundredths
  glitches_used,        \* transient read failures produced so far
  src_pos,              \* read position of the capture in use
  \* control surface (CarCounterApp, main thread)
  video_thread,         \* "None" or "vp"
  start_btn, pause_btn, stop_btn,
  main_pc,              \* "ready", "stopping" (inside VideoProcessor.stop) or "closed"
  queue,                \* terminal signals emitted and not yet delivered
  stop_returned,        \* VideoProcessor.stop calls on the current worker that returned
  runs,                 \* VideoProcessor workers started so far
  orphans,              \* earlier workers still alive when a later one was started
  \* VideoProcessor fields and the locals of run
  pc, running, paused, video_path, playback_speed, skip_residual,
  is_live_stream, cap, handles, backend_i, attempts,
  total_frames, frame_count, consecutive_failures,
  counts,               \* vehicles counted by car_counter
  confidence, iou,      \* VideoProcessor.confidence and .iou, in hundredths
  \* configurations; the list of classes of each is a cell of the heap
  DEFAULT_CONFIG,       \* detection_config.DEFAULT_CONFIG
  detection_config,     \* VideoProcessor.detection_config
  asf_config,           \* YOLOASFProcessor.config
  heap,                 \* the lists allocated so far
  \* history of the run
  events,               \* signals emitted by the worker, in order
  dispatched,           \* calls of car_counter.process_frame that returned
  failed_reads,         \* cap.read calls that failed since the last one that succeeded
  failed_grabs,         \* cap.grab calls that failed since the last successful read
  stop_reads,           \* cap.read calls issued while running was False
  stop_dispatches,      \* process_frame calls that returned while running was False
  exit_path,            \* how run left: "none", "cannot_open", "first_frame",
                        \* "exception", "ceiling", "stop"
  \* ASFProcessingThread / YOLOASFProcessor
  asf_pc, asf_cap, asf_handles, asf_i, asf_attempts, asf_failures,
  asf_frame_count

envVars == <<current_video, speed_choice, src_avail, src_reported, src_glitches,
             max_runs, conf_choice>>
appVars == <<video_thread, start_btn, pause_btn, stop_btn, main_pc, stop_returned,
             runs, orphans>>
flagVars == <<running, paused>>
openVars == <<cap, handles, backend_i, attempts>>
loopVars == <<total_frames, frame_count, consecutive_failures, skip_residual,
              dispatched, failed_reads, failed_grabs, counts, stop_reads,
              stop_dispatches>>
cfgVars == <<DEFAULT_CONFIG, detection_config, asf_config, heap>>
fieldVars == <<video_path, playback_speed, is_live_stream, confidence, iou,
               cfgVars>>
asfVars == <<asf_pc, asf_cap, asf_handles, asf_i, asf_attempts, asf_failures,
            asf_frame_count>>

vars == <<envVars, glitches_used, src_pos, appVars, queue, flagVars, pc,
          openVars, loopVars, fieldVars, events, exit_path, asfVars>>

\* speed_combo: "0.5x", "1x", "1.5x", "2x", "4x", "6x", "8x", "10x", in halves
SpeedCombo == {1, 2, 3, 4, 8, 12, 16, 20}

\* A candidate list that tries DSHOW first.
backends_Reordered == <<"DSHOW", "FFMPEG", "ANY">>

\* backends = [cv2.CAP_FFMPEG, cv2.CAP_DSHOW, cv2.CAP_ANY]
backends == <<"FFMPEG", "DSHOW", "ANY">>

NoCap == [backend |-> "None", opened |-> FALSE]
Capture(b, o) == [backend |-> b, opened |-> o]

(***************************************************************************)
(* DetectionConfig.  Confidence, IoU and line_ratio are kept in hundredths. *)
(* A configuration holds a reference to its list of classes; the lists live *)
(* in `heap`, so that two configurations that share a list can be told from *)
(* two that hold equal lists.                                               *)
(***************************************************************************)
\* DetectionConfig.__init__, with its list of classes in cell `ref`
DetectionConfig(ref) ==
  [confidence |-> 25, iou |-> 45, classes |-> ref, tracker |-> "bytetrack.yaml",
   persist |-> TRUE, device |-> "auto", line_ratio |-> 70,
   detection_zone |-> 50, verbose |-> FALSE, debug |-> FALSE]

\* No configuration was built yet (None).
NoConfig == [DetectionConfig(0) EXCEPT !.tracker = "None"]

\* self.classes = [0]
DefaultClasses == <<0>>

\* max(0.1, min(0.9, x))
Clamp(x) == IF x > 90 THEN 90 ELSE IF x < 10 THEN 10 ELSE x

\* set_confidence
SetConfidence(cfg, v) == [cfg EXCEPT !.confidence = Clamp(v)]

\* set_iou
SetIou(cfg, v) == [cfg EXCEPT !.iou = Clamp(v)]

\* set_device
SetDevice(cfg, d) ==
  [cfg EXCEPT !.device = IF d \in {"auto", "cpu", "cuda"} THEN d ELSE "auto"]

\* set_debug
SetDebug(cfg, b) == [cfg EXCEPT !.debug = b]

\* A copy that takes over the list of the original.
CopyClasses_Alias(h, ref) == ref

\* new_config.classes = self.classes.copy(): the cell of the new list
CopyClasses(h, ref) == Len(h) + 1

\* The heap after self.classes.copy()
HeapAfterCopy(h, ref) == Append(h, h[ref])

\* DetectionConfig.copy
CopyConfig(cfg, h) ==
  [DetectionConfig(CopyClasses(h, cfg.classes)) EXCEPT
     !.confidence = cfg.confidence, !.iou = cfg.iou, !.tracker = cfg.tracker,
     !.persist = cfg.persist, !.device = cfg.device,
     !.line_ratio = cfg.line_ratio, !.detection_zone = cfg.detection_zone,
     !.verbose = cfg.verbose, !.debug = cfg.debug]

\* VideoProcessor.__init__, lines 144-149: the configuration of a worker
WorkerConfig(cfg, h, conf, iouv, device, zone) ==
  [SetDevice(SetIou(SetConfidence(CopyConfig(cfg, h), conf), iouv), device)
     EXCEPT !.detection_zone = zone]

\* Frame counts a source of n frames may report: unknown (0), the true one,
\* or one frame short of it.
ReportedFor(n) == {0, n} \cup {r \in {n - 1} : r >= 1}

\* The state after CarCounterApp.__init__, for a given environment.
InitWith(video, speed, avail, reported, glitches, starts, conf) ==
  /\ current_video = video
  /\ speed_choice = speed
  /\ src_avail = avail
  /\ src_reported = reported
  /\ src_glitches = glitches
  /\ max_runs = starts
  /\ conf_choice = conf
  /\ glitches_used = 0
  /\ src_pos = 0
  /\ video_thread = "None"
  /\ start_btn = TRUE
  /\ pause_btn = FALSE
  /\ stop_btn = FALSE
  /\ main_pc = "ready"
  /\ queue = <<>>
  /\ stop_returned = 0
  /\ runs = 0
  /\ orphans = 0
  /\ pc = "idle"
  /\ running = FALSE
  /\ paused = FALSE
  /\ video_path = video
  /\ playback_speed = 2
  /\ skip_residual = 0
  /\ is_live_stream = FALSE
  /\ confidence = 25
  /\ iou = 45
  /\ DEFAULT_CONFIG = DetectionConfig(1)
  /\ detection_config = NoConfig
  /\ asf_config = NoConfig
  /\ heap = <<DefaultClasses>>
  /\ cap = NoCap
  /\ handles = {}
  /\ backend_i = 1
  /\ attempts = <<>>
  /\ total_frames = 0
  /\ frame_count = 0
  /\ consecutive_failures = 0
  /\ events = <<>>
  /\ dispatched = 0
  /\ failed_reads = 0
  /\ failed_grabs = 0
  /\ counts = 0
  /\ stop_reads = 0
  /\ stop_dispatches = 0
  /\ exit_path = "none"
  /\ asf_pc = "idle"
  /\ asf_cap = NoCap
  /\ asf_handles = {}
  /\ asf_i = 1
  /\ asf_attempts = <<>>
  /\ asf_failures = 0
  /\ asf_frame_count = 0

\* Every identifier, on a source of at most one frame played at 1x.
InitClassify ==
  \E video \in Identifiers, avail \in 0..1 :
    \E reported \in ReportedFor(avail) :
      InitWith(video, 2, avail, reported, 0, 1, SliderDefault)

\* A stream and a file, on every small source, at the speeds 1x, 1.5x, 2x
\* and 4x, with and without transient read failures.  (The webcam index is
\* opened and read like a file; it is among the sources of InitClassify.)
InitRuns ==
  \E video \in {RtspUrl, ClipMp4}, speed \in {2, 3, 4, 8},
     avail \in 0..MaxFrames, glitches \in {0, MaxGlitches} :
    \E reported \in ReportedFor(avail) :
      InitWith(video, speed, avail, reported, glitches, 1, SliderDefault)

\* A long file whose reported frame count is exact or unknown, at the
\* speeds 1x, 1.5x, 2x and 10x.
InitLong ==
  \E speed \in {2, 3, 4, 20}, reported \in {0, LongFrames} :
    InitWith(ClipMp4, speed, LongFrames, reported, 0, 1, SliderDefault)

\* A stream and a file of at most one frame, started up to MaxRuns times.
InitRestart ==
  \E video \in {RtspUrl, ClipMp4}, avail \in 0..1 :
    \E reported \in ReportedFor(avail) :
      InitWith(video, 2, avail, reported, 0, MaxRuns, SliderDefault)

\* A stream and a file whose frame count is reported as negative, at the
\* speeds 0.5x, 1x and 2x.
InitUnknown ==
  \E video \in {RtspUrl, ClipMp4}, speed \in {1, 2, 4} :
    InitWith(video, speed, MaxFrames, -1, 0, 1, SliderDefault)

\* A file of two frames, with the confidence slider at the ends of its
\* range (setRange(10, 95)) and at the largest value the configuration keeps.
InitSlider ==
  \E conf \in {10, 90, 95} : InitWith(ClipMp4, 2, 2, 2, 0, 1, conf)

Init ==
  \/ InitClassify \/ InitRuns \/ InitLong \/ InitRestart \/ InitUnknown
  \/ InitSlider

\* The scenarios of the termination check: a file of at most two frames at
\* the speeds 1x and 2x, with and without transient read failures, and a
\* special-container file without a frame, each started once, and a stream
\* of one frame, started up to MaxRuns times.
InitFair ==
  \/ \E speed \in {2, 4}, avail \in 0..2, glitches \in {0, MaxGlitches} :
       \E reported \in ReportedFor(avail) :
         InitWith(ClipMp4, speed, avail, reported, glitches, 1, SliderDefault)
  \/ InitWith(ClipWmv, 2, 0, 0, 0, 1, SliderDefault)
  \/ InitWith(RtspUrl, 2, 1, 0, 0, MaxRuns, SliderDefault)

(***************************************************************************)
(* Signals.  The worker's signals are recorded in `events` when emitted.   *)
(* The terminal ones (error_occurred, finished_processing and the two of   *)
(* the ASF thread) are also queued for the main thread, whose slots change *)
(* the control surface; the slots of the other signals only repaint.       *)
(***************************************************************************)
Ev(sig, val, msg) == [sig |-> sig, val |-> val, msg |-> msg]

MsgCannotOpen == "Cannot open video"
MsgFirstFrame == "Cannot read first frame from video"
MsgLostConnection == "Lost connection to live stream"
MsgEndOfFile == "End of video file reached"
MsgProcessing == "Processing error"

\* self.error_occurred.emit(msg)
EmitError(msg) ==
  /\ events' = Append(events, Ev("error_occurred", 0, msg))
  /\ queue' = Append(queue, "error_occurred")

\* A handler that reports the error and goes back to the frame loop.
RaiseInRun_Resumes ==
  /\ EmitError(MsgProcessing)
  /\ exit_path' = "exception"
  /\ pc' = "loop"

\* except Exception as e: self.error_occurred.emit(f"Processing error: ...")
\* The handler is the last statement of run: nothing is released.
RaiseInRun ==
  /\ EmitError(MsgProcessing)
  /\ exit_path' = "exception"
  /\ pc' = "done"

(***************************************************************************)
(* The source.  A read or grab succeeds when a frame is left at the        *)
(* position of the capture; a source with glitches left may fail a read    *)
(* although a frame is left.                                               *)
(***************************************************************************)
FrameLeft == src_pos < src_avail

(***************************************************************************)
(* VideoProcessor.run                                                      *)
(***************************************************************************)
\* CarCounter(...) is built and the source is classified.
W_Init ==
  /\ pc = "init"
  /\ is_live_stream' = IsLiveStream(video_path)
  /\ pc' = IF IsLiveStream(video_path) THEN "open_live"
           ELSE IF IsAsfFile(video_path) THEN "asf_open"
           ELSE "open_default"
  /\ UNCHANGED <<envVars, glitches_used, src_pos, appVars, queue, flagVars,
                 openVars, loopVars, video_path, playback_speed, confidence,
                 iou, cfgVars, events, exit_path, asfVars>>

\* CarCounter(...) raises (model file unreadable, ...).
W_InitRaise ==
  /\ pc = "init"
  /\ RaiseInRun
  /\ UNCHANGED <<envVars, glitches_used, src_pos, appVars, flagVars, openVars,
                 loopVars, fieldVars, asfVars>>

\* cap = cv2.VideoCapture(self.video_path, cv2.CAP_FFMPEG) and its settings
W_OpenLive ==
  /\ pc = "open_live"
  /\ \E opens \in BOOLEAN :
       /\ cap' = Capture("FFMPEG", opens)
       /\ handles' = IF opens THEN handles \cup {"FFMPEG"} ELSE handles
  /\ src_pos' = 0
  /\ pc' = "check_open"
  /\ UNCHANGED <<envVars, glitches_used, appVars, queue, flagVars, backend_i,
                 attempts, loopVars, fieldVars, events, exit_path, asfVars>>

\* cap = cv2.VideoCapture(self.video_path)    (not live, not ASF)
W_OpenDefault ==
  /\ pc = "open_default"
  /\ \E opens \in BOOLEAN :
       /\ cap' = Capture("DEFAULT", opens)
       /\ handles' = IF opens THEN handles \cup {"DEFAULT"} ELSE handles
  /\ src_pos' = 0
  /\ pc' = "check_open"
  /\ UNCHANGED <<envVars, glitches_used, appVars, queue, flagVars, backend_i,
                 attempts, loopVars, fieldVars, events, exit_path, asfVars>>

\* A negotiation that keeps the handle of a rejected candidate.
ReleaseCandidate_Leak(open, c) == open

\* cap.release() of a candidate that failed: the handles left open.
ReleaseCandidate(open, c) == open \ {c.backend}

\* Where the for loop over backends goes after candidate i failed.
NextCandidate(i) == IF i < Len(backends) THEN "asf_open" ELSE "asf_after"

\* for backend in backends: cap = cv2.VideoCapture(self.video_path, backend)
\* The constructor returns an opened capture, an unopened one, or raises; in
\* the handler `if cap: cap.release()` finds the capture of the previous
\* candidate, which is None or was never opened.
W_AsfOpen ==
  /\ pc = "asf_open"
  /\ \E o \in {"opens", "noopen", "raise"} :
       CASE o = "opens" ->
              /\ cap' = Capture(backends[backend_i], TRUE)
              /\ handles' = handles \cup {backends[backend_i]}
              /\ src_pos' = 0
              /\ pc' = "asf_probe"
              /\ UNCHANGED <<backend_i, attempts>>
         [] o = "noopen" ->
              /\ cap' = Capture(backends[backend_i], FALSE)
              /\ attempts' = Append(attempts, "noopen")
              /\ backend_i' = backend_i + 1
              /\ pc' = NextCandidate(backend_i)
              /\ UNCHANGED <<handles, src_pos>>
         [] o = "raise" ->
              /\ cap' = NoCap
              /\ handles' = ReleaseCandidate(handles, cap)
              /\ attempts' = Append(attempts, "raise")
              /\ backend_i' = backend_i + 1
              /\ pc' = NextCandidate(backend_i)
              /\ UNCHANGED src_pos
  /\ UNCHANGED <<envVars, glitches_used, appVars, queue, flagVars, loopVars,
                 fieldVars, events, exit_path, asfVars>>

\* ret, test_frame = cap.read() on the opened candidate: the probe passes
\* (rewind and break), fails (release, cap = None), or raises (release in
\* the handler, cap = None, continue).
W_AsfProbe ==
  /\ pc = "asf_probe"
  /\ \E o \in {"ok", "probefail", "raise"} :
       CASE o = "ok" ->
              /\ FrameLeft
              /\ src_pos' = 0
              /\ attempts' = Append(attempts, "ok")
              /\ pc' = "asf_after"
              /\ UNCHANGED <<cap, handles, backend_i>>
         [] OTHER ->
              /\ cap' = NoCap
              /\ handles' = ReleaseCandidate(handles, cap)
              /\ attempts' = Append(attempts, IF o = "raise" THEN "raise_read" ELSE o)
              /\ backend_i' = backend_i + 1
              /\ pc' = NextCandidate(backend_i)
              /\ UNCHANGED src_pos
  /\ UNCHANGED <<envVars, glitches_used, appVars, queue, flagVars, loopVars,
                 fieldVars, events, exit_path, asfVars>>

\* A negotiation that gives up after the last candidate.
W_AsfAfter_NoFallback ==
  /\ pc = "asf_after"
  /\ pc' = "check_open"
  /\ UNCHANGED <<envVars, glitches_used, src_pos, appVars, queue, flagVars,
                 openVars, loopVars, fieldVars, events, exit_path, asfVars>>

\* if cap and cap.isOpened(): tune the capture
\* else: cap = cv2.VideoCapture(self.video_path)
W_AsfAfter ==
  /\ pc = "asf_after"
  /\ IF cap # NoCap /\ cap.opened
     THEN UNCHANGED <<cap, handles, src_pos, attempts>>
     ELSE \E opens \in BOOLEAN :
            /\ cap' = Capture("DEFAULT", opens)
            /\ handles' = IF opens THEN handles \cup {"DEFAULT"} ELSE handles
            /\ src_pos' = 0
            /\ attempts' = Append(attempts, IF opens THEN "default_opens" ELSE "default_noopen")
  /\ pc' = "check_open"
  /\ UNCHANGED <<envVars, glitches_used, appVars, queue, flagVars, backend_i,
                 loopVars, fieldVars, events, exit_path, asfVars>>

\* A run that goes on whether or not the capture is opened.
W_CheckOpen_Unchecked ==
  /\ pc = "check_open"
  /\ pc' = "first_frame"
  /\ UNCHANGED <<envVars, glitches_used, src_pos, appVars, queue, flagVars,
                 openVars, loopVars, fieldVars, events, exit_path, asfVars>>

\* if not cap.isOpened(): emit "Cannot open video" and return
W_CheckOpen ==
  /\ pc = "check_open"
  /\ IF cap.opened
     THEN /\ pc' = "first_frame"
          /\ UNCHANGED <<events, queue, exit_path>>
     ELSE /\ EmitError(MsgCannotOpen)
          /\ exit_path' = "cannot_open"
          /\ pc' = "done"
  /\ UNCHANGED <<envVars, glitches_used, src_pos, appVars, flagVars, openVars,
                 loopVars, fieldVars, asfVars>>

\* A frame count taken as the source reports it.
TotalFrames_Raw(reported) == reported

\* total_frames = int(cap.get(CAP_PROP_FRAME_COUNT)); if total_frames <= 0: -1
TotalFrames(reported) == IF reported <= 0 THEN -1 ELSE reported

\* if not is_live_stream and total_frames > 0: cap.set(cv2.CAP_PROP_POS_FRAMES, 0)
Rewinds(live, total) == ~live /\ total > 0

\* The video properties, the first frame, and the rewind of files:
\*   ret, first_frame = cap.read(); if not ret: emit and return
\*   if not is_live_stream and total_frames > 0: cap.set(POS_FRAMES, 0)
W_FirstFrame ==
  /\ pc = "first_frame"
  /\ total_frames' = TotalFrames(src_reported)
  /\ IF FrameLeft
     THEN /\ src_pos' = IF Rewinds(is_live_stream, TotalFrames(src_reported))
                        THEN 0 ELSE src_pos + 1
          /\ frame_count' = 0
          /\ consecutive_failures' = 0
          /\ pc' = "loop"
          /\ UNCHANGED <<events, queue, exit_path>>
     ELSE /\ EmitError(MsgFirstFrame)
          /\ exit_path' = "first_frame"
          /\ pc' = "done"
          /\ UNCHANGED <<src_pos, frame_count, consecutive_failures>>
  /\ UNCHANGED <<envVars, glitches_used, appVars, flagVars, openVars,
                 skip_residual, dispatched, failed_reads, failed_grabs, counts,
                 stop_reads, stop_dispatches, fieldVars, asfVars>>


(***************************************************************************)
(* The frame loop: while self.running: if not self.paused: ...             *)
(***************************************************************************)
\* A loop that does not look at the running flag.
W_LoopCheck_Deaf ==
  /\ pc = "loop"
  /\ pc' = "body"
  /\ UNCHANGED <<envVars, glitches_used, src_pos, appVars, queue, flagVars,
                 openVars, loopVars, fieldVars, events, exit_path, asfVars>>

\* The loop condition is read; when it is false the loop is left.
W_LoopCheck ==
  /\ pc = "loop"
  /\ IF running
     THEN /\ pc' = "body"
          /\ UNCHANGED exit_path
     ELSE /\ pc' = "release"
          /\ exit_path' = "stop"
  /\ UNCHANGED <<envVars, glitches_used, src_pos, appVars, queue, flagVars,
                 openVars, loopVars, fieldVars, events, asfVars>>

\* A loop body that does not test the paused flag.
W_PauseCheck_Ignored ==
  /\ pc = "body"
  /\ pc' = "read"
  /\ UNCHANGED <<envVars, glitches_used, src_pos, appVars, queue, flagVars,
                 openVars, loopVars, fieldVars, events, exit_path, asfVars>>

\* if not self.paused: is true; the worker goes on to cap.read().
W_PauseCheck ==
  /\ pc = "body"
  /\ ~paused
  /\ pc' = "read"
  /\ UNCHANGED <<envVars, glitches_used, src_pos, appVars, queue, flagVars,
                 openVars, loopVars, fieldVars, events, exit_path, asfVars>>

\* A paused worker that waits inside the body for the flag to be cleared.
W_PausedSpin_Waits ==
  /\ pc = "body"
  /\ paused
  /\ pc' = "body"
  /\ UNCHANGED <<envVars, glitches_used, src_pos, appVars, queue, flagVars,
                 openVars, loopVars, fieldVars, events, exit_path, asfVars>>

\* if not self.paused: is false; the body is skipped and the condition read again.
W_PausedSpin ==
  /\ pc = "body"
  /\ paused
  /\ pc' = "loop"
  /\ UNCHANGED <<envVars, glitches_used, src_pos, appVars, queue, flagVars,
                 openVars, loopVars, fieldVars, events, exit_path, asfVars>>

\* A ceiling that is only passed by the failure after the 30th.
GivesUp_Late(cf) == cf > max_failures

\* if consecutive_failures >= max_failures:
GivesUp(cf) == cf >= max_failures

\* The terminal message of the failure ceiling.
CeilingMessage(live) == IF live THEN MsgLostConnection ELSE MsgEndOfFile

\* ret, frame = cap.read() fails: count it, give up at max_failures, else
\* msleep(100) and continue.
W_ReadFail ==
  /\ pc = "read"
  /\ IF FrameLeft
     THEN glitches_used < src_glitches /\ glitches_used' = glitches_used + 1
     ELSE UNCHANGED glitches_used
  /\ consecutive_failures' = consecutive_failures + 1
  /\ failed_reads' = failed_reads + 1
  /\ stop_reads' = IF running THEN stop_reads ELSE stop_reads + 1
  /\ IF GivesUp(consecutive_failures + 1)
     THEN /\ EmitError(CeilingMessage(is_live_stream))
          /\ exit_path' = "ceiling"
          /\ pc' = "release"
     ELSE /\ pc' = "loop"
          /\ UNCHANGED <<events, queue, exit_path>>
  /\ UNCHANGED <<envVars, src_pos, appVars, flagVars, openVars, total_frames,
                 frame_count, skip_residual, dispatched, failed_grabs, counts,
                 stop_dispatches, fieldVars, asfVars>>

\* A successful read that leaves the failure counter as it is.
W_ReadOk_NoReset ==
  /\ pc = "read"
  /\ FrameLeft
  /\ src_pos' = src_pos + 1
  /\ failed_reads' = 0
  /\ failed_grabs' = 0
  /\ stop_reads' = IF running THEN stop_reads ELSE stop_reads + 1
  /\ pc' = "process"
  /\ UNCHANGED <<envVars, glitches_used, appVars, queue, flagVars, openVars,
                 total_frames, frame_count, consecutive_failures, skip_residual,
                 dispatched, counts, stop_dispatches, fieldVars, events,
                 exit_path, asfVars>>

\* ret, frame = cap.read() succeeds: consecutive_failures = 0
W_ReadOk ==
  /\ pc = "read"
  /\ FrameLeft
  /\ src_pos' = src_pos + 1
  /\ consecutive_failures' = 0
  /\ failed_reads' = 0
  /\ failed_grabs' = 0
  /\ stop_reads' = IF running THEN stop_reads ELSE stop_reads + 1
  /\ pc' = "process"
  /\ UNCHANGED <<envVars, glitches_used, appVars, queue, flagVars, openVars,
                 total_frames, frame_count, skip_residual, dispatched, counts,
                 stop_dispatches, fieldVars, events, exit_path, asfVars>>

\* while self._skip_residual >= 1.0: grabbed = cap.grab() ...
\* res: residual in halves, pos: capture position, skipped: skipped_this_iter,
\* cf: consecutive_failures; failed: whether a grab failed.
RECURSIVE SkipLoop(_, _, _, _)
SkipLoop(res, pos, skipped, cf) ==
  IF res >= 2
  THEN IF pos < src_avail
       THEN SkipLoop(res - 2, pos + 1, skipped + 1, cf)
       ELSE [res |-> res, pos |-> pos, skipped |-> skipped, cf |-> cf + 1,
             failed |-> TRUE]
  ELSE [res |-> res, pos |-> pos, skipped |-> skipped, cf |-> cf,
        failed |-> FALSE]

\* A skipping that adds the whole speed to the residual.
Skip_Whole(live, speed, res, pos, cf) ==
  IF ~live /\ speed > 2
  THEN SkipLoop(res + speed, pos, 0, cf)
  ELSE [res |-> res, pos |-> pos, skipped |-> 0, cf |-> cf, failed |-> FALSE]

\* The frame skipping of one iteration:
\*   if not is_live_stream and self.playback_speed > 1.0: ...
Skip(live, speed, res, pos, cf) ==
  IF ~live /\ speed > 2
  THEN SkipLoop(res + (speed - 2), pos, 0, cf)
  ELSE [res |-> res, pos |-> pos, skipped |-> 0, cf |-> cf, failed |-> FALSE]

\* A counter that never advances.
FrameCountAfter_Stuck(fc, skipped) == fc

\* A counter that advances by the dispatched frame only.
FrameCountAfter_Dispatched(fc, skipped) == fc + 1

\* frame_count += 1 + skipped_this_iter
FrameCountAfter(fc, skipped) == fc + 1 + skipped

\* A completion test that 100 itself does not pass.
Completes_Above(progress) == progress > 100

\* if progress >= 100: self.progress_completed.emit(counts)
Completes(progress) == progress >= 100

\* Pairs (frame_count, total_frames) at which the double product
\* (frame_count / total_frames) * 100 falls just below the exact integer, so
\* that int() yields one less.  The table is that of IEEE-754 doubles for
\* total_frames <= 9 and total_frames in {100, 101}, frame_count <= 2 * total_frames.
FloatShort ==
  { <<29, 100>>, <<57, 100>>, <<58, 100>>, <<113, 100>>, <<114, 100>>,
    <<115, 100>>, <<116, 100>> }

\* progress = int((frame_count / total_frames) * 100)
Progress(fc, total) ==
  IF <<fc, total>> \in FloatShort
  THEN ((fc * 100) \div total) - 1
  ELSE (fc * 100) \div total

\* The signals of one successful iteration after the frame was processed:
\* frame_ready and count_updated, then progress_updated and, at 100 or more,
\* progress_completed.
IterationEvents(fcBefore, fcAfter, total) ==
  <<Ev("frame_ready", fcBefore, ""), Ev("count_updated", fcBefore, "")>>
  \o (IF total > 0
      THEN <<Ev("progress_updated", Progress(fcAfter, total), "")>>
           \o (IF Completes(Progress(fcAfter, total))
               THEN <<Ev("progress_completed", fcAfter, "")>>
               ELSE <<>>)
      ELSE <<Ev("progress_updated", LiveProgress, "")>>)

\* The counter after a frame in which `seen` vehicles crossed the line.
Counted(c, seen) == IF c + seen > MaxCount THEN MaxCount ELSE c + seen

\* car_counter.process_frame returns; the signals are emitted, frames are
\* skipped, the counter and the progress are updated, and the worker sleeps.
W_Process ==
  /\ pc = "process"
  /\ LET sk == Skip(is_live_stream, playback_speed, skip_residual, src_pos,
                    consecutive_failures)
     IN /\ skip_residual' = sk.res
        /\ src_pos' = sk.pos
        /\ consecutive_failures' = sk.cf
        /\ failed_grabs' = IF sk.failed THEN failed_grabs + 1 ELSE failed_grabs
        /\ frame_count' = FrameCountAfter(frame_count, sk.skipped)
        /\ events' = events \o IterationEvents(frame_count,
                         FrameCountAfter(frame_count, sk.skipped), total_frames)
  /\ dispatched' = dispatched + 1
  /\ stop_dispatches' = IF running THEN stop_dispatches ELSE stop_dispatches + 1
  /\ \E seen \in 0..1 : counts' = Counted(counts, seen)
  /\ pc' = "loop"
  /\ UNCHANGED <<envVars, glitches_used, appVars, queue, flagVars, openVars,
                 total_frames, failed_reads, stop_reads, fieldVars, exit_path,
                 asfVars>>

\* car_counter.process_frame (or the conversion of its result) raises.
W_ProcessRaise ==
  /\ pc = "process"
  /\ RaiseInRun
  /\ UNCHANGED <<envVars, glitches_used, src_pos, appVars, flagVars, openVars,
                 loopVars, fieldVars, asfVars>>

\* cap.release() after the loop
W_Release ==
  /\ pc = "release"
  /\ handles' = handles \ {cap.backend}
  /\ pc' = "finish"
  /\ UNCHANGED <<envVars, glitches_used, src_pos, appVars, queue, flagVars,
                 cap, backend_i, attempts, loopVars, fieldVars, events,
                 exit_path, asfVars>>

\* self.finished_processing.emit(); run returns.
W_Finished ==
  /\ pc = "finish"
  /\ events' = Append(events, Ev("finished_processing", 0, ""))
  /\ queue' = Append(queue, "finished_processing")
  /\ pc' = "done"
  /\ UNCHANGED <<envVars, glitches_used, src_pos, appVars, flagVars, openVars,
                 loopVars, fieldVars, exit_path, asfVars>>


(***************************************************************************)
(* ASFProcessingThread.run -> YOLOASFProcessor.process_video, started for  *)
(* a path that ends in .asf or .wmv.                                       *)
(***************************************************************************)
asfRest == <<envVars, glitches_used, appVars, flagVars, pc, openVars, loopVars,
             fieldVars, events, exit_path>>

\* Where open_video's for loop goes after candidate i failed.
AsfNextCandidate(i) == IF i < Len(backends) THEN "open" ELSE "after"

\* open_video: self.cap = cv2.VideoCapture(video_path, backend)
A_Open ==
  /\ asf_pc = "open"
  /\ \E o \in {"opens", "noopen", "raise"} :
       CASE o = "opens" ->
              /\ asf_cap' = Capture(backends[asf_i], TRUE)
              /\ asf_handles' = asf_handles \cup {backends[asf_i]}
              /\ src_pos' = 0
              /\ asf_pc' = "probe"
              /\ UNCHANGED <<asf_i, asf_attempts>>
         [] o = "noopen" ->
              /\ asf_cap' = Capture(backends[asf_i], FALSE)
              /\ asf_attempts' = Append(asf_attempts, "noopen")
              /\ asf_i' = asf_i + 1
              /\ asf_pc' = AsfNextCandidate(asf_i)
              /\ UNCHANGED <<asf_handles, src_pos>>
         [] o = "raise" ->
              /\ asf_cap' = NoCap
              /\ asf_handles' = ReleaseCandidate(asf_handles, asf_cap)
              /\ asf_attempts' = Append(asf_attempts, "raise")
              /\ asf_i' = asf_i + 1
              /\ asf_pc' = AsfNextCandidate(asf_i)
              /\ UNCHANGED src_pos
  /\ UNCHANGED <<asfRest, queue, asf_failures, asf_frame_count>>

\* open_video: ret, test_frame = self.cap.read() on the opened candidate
A_Probe ==
  /\ asf_pc = "probe"
  /\ \E o \in {"ok", "probefail", "raise"} :
       CASE o = "ok" ->
              /\ FrameLeft
              /\ src_pos' = 0
              /\ asf_attempts' = Append(asf_attempts, "ok")
              /\ asf_pc' = "after"
              /\ UNCHANGED <<asf_cap, asf_handles, asf_i>>
         [] OTHER ->
              /\ asf_cap' = NoCap
              /\ asf_handles' = ReleaseCandidate(asf_handles, asf_cap)
              /\ asf_attempts' = Append(asf_attempts, IF o = "raise" THEN "raise_read" ELSE o)
              /\ asf_i' = asf_i + 1
              /\ asf_pc' = AsfNextCandidate(asf_i)
              /\ UNCHANGED src_pos
  /\ UNCHANGED <<asfRest, queue, asf_failures, asf_frame_count>>

\* An open_video that gives up after the last candidate.
A_After_NoFallback ==
  /\ asf_pc = "after"
  /\ IF asf_cap # NoCap /\ asf_cap.opened
     THEN /\ asf_pc' = "loop"
          /\ UNCHANGED queue
     ELSE /\ asf_pc' = "done"
          /\ queue' = Append(queue, "processing_completed")
  /\ asf_failures' = 0
  /\ asf_frame_count' = 0
  /\ UNCHANGED <<asfRest, src_pos, asf_cap, asf_handles, asf_i, asf_attempts>>

\* open_video after the loop: keep the accepted capture or fall back to
\* cv2.VideoCapture(video_path); then `if not self.cap.isOpened(): return
\* False`, on which process_video returns and processing_completed is emitted.
A_After ==
  /\ asf_pc = "after"
  /\ IF asf_cap # NoCap /\ asf_cap.opened
     THEN /\ asf_pc' = "loop"
          /\ UNCHANGED <<asf_cap, asf_handles, src_pos, asf_attempts, queue>>
     ELSE \E opens \in BOOLEAN :
            /\ asf_cap' = Capture("DEFAULT", opens)
            /\ asf_handles' = IF opens THEN asf_handles \cup {"DEFAULT"} ELSE asf_handles
            /\ src_pos' = 0
            /\ asf_attempts' = Append(asf_attempts, IF opens THEN "default_opens" ELSE "default_noopen")
            /\ asf_pc' = IF opens THEN "loop" ELSE "done"
            /\ queue' = IF opens THEN queue ELSE Append(queue, "processing_completed")
  /\ asf_failures' = 0
  /\ asf_frame_count' = 0
  /\ UNCHANGED <<asfRest, asf_i>>

\* One iteration of while True: a frame is read and detected, or the read
\* fails and is counted; at max_failures the loop is left.
A_Loop ==
  /\ asf_pc = "loop"
  /\ IF FrameLeft
     THEN /\ src_pos' = src_pos + 1
          /\ asf_failures' = 0
          /\ asf_frame_count' = asf_frame_count + 1
          /\ UNCHANGED asf_pc
     ELSE /\ asf_failures' = asf_failures + 1
          /\ asf_pc' = IF GivesUp(asf_failures + 1) THEN "cleanup" ELSE "loop"
          /\ UNCHANGED <<src_pos, asf_frame_count>>
  /\ UNCHANGED <<asfRest, queue, asf_cap, asf_handles, asf_i, asf_attempts>>

\* finally: self.cleanup(out_writer); then processing_completed is emitted.
A_Cleanup ==
  /\ asf_pc = "cleanup"
  /\ asf_handles' = asf_handles \ {asf_cap.backend}
  /\ asf_pc' = "done"
  /\ queue' = Append(queue, "processing_completed")
  /\ UNCHANGED <<asfRest, src_pos, asf_cap, asf_i, asf_attempts, asf_failures,
                 asf_frame_count>>

(***************************************************************************)
(* CarCounterApp: the control surface, on the main thread.  One run is     *)
(* started per behaviour.                                                  *)
(***************************************************************************)
\* What start_processing accepts for each entry of the source type box.
SourceAccepts(st, v) ==
  CASE st = "CCTV Stream" -> v.isStr /\ Len(v.chars) > 0
    [] st = "Webcam" -> v = IntZero
    [] st = "Local File" -> IsVideoFile(v)
    [] OTHER -> FALSE

\* on_processing_finished
OnProcessingFinished ==
  /\ start_btn' = TRUE
  /\ pause_btn' = FALSE
  /\ stop_btn' = FALSE
  /\ video_thread' = "None"

\* asf_thread.terminate(); asf_thread.wait(): the thread is killed where it is.
Terminated(p) ==
  IF p \in {"open", "probe", "after", "loop", "cleanup"} THEN "killed" ELSE p

\* The worker described by the run variables has not returned from run.
WorkerAlive == pc \notin {"idle", "done"}

\* start_processing, for a source handled by VideoProcessor: a new worker is
\* built and started and replaces the reference in video_thread; the handler
\* does not look at the worker it held.  The run variables describe the new
\* worker from here on; a worker that was still alive goes on unobserved.
StartProcessing ==
  /\ main_pc = "ready"
  /\ start_btn
  /\ runs < max_runs
  /\ asf_pc = "idle"
  /\ \E st \in {"CCTV Stream", "Webcam", "Local File"} : SourceAccepts(st, current_video)
  /\ orphans' = IF WorkerAlive THEN orphans + 1 ELSE orphans
  /\ runs' = runs + 1
  /\ video_thread' = "vp"
  /\ stop_returned' = 0
  /\ video_path' = current_video
  /\ playback_speed' = speed_choice
  /\ confidence' = conf_choice
  /\ iou' = 45
  /\ detection_config' = WorkerConfig(DEFAULT_CONFIG, heap, conf_choice, 45,
                                      "auto", 50)
  /\ heap' = HeapAfterCopy(heap, DEFAULT_CONFIG.classes)
  /\ skip_residual' = 0
  /\ running' = TRUE
  /\ paused' = FALSE
  /\ pc' = "init"
  /\ is_live_stream' = FALSE
  /\ cap' = NoCap
  /\ handles' = {}
  /\ backend_i' = 1
  /\ attempts' = <<>>
  /\ total_frames' = 0
  /\ frame_count' = 0
  /\ consecutive_failures' = 0
  /\ counts' = 0
  /\ dispatched' = 0
  /\ failed_reads' = 0
  /\ failed_grabs' = 0
  /\ stop_reads' = 0
  /\ stop_dispatches' = 0
  /\ events' = <<>>
  /\ exit_path' = "none"
  /\ src_pos' = 0
  /\ start_btn' = FALSE
  /\ pause_btn' = TRUE
  /\ stop_btn' = TRUE
  /\ UNCHANGED <<envVars, glitches_used, main_pc, queue, DEFAULT_CONFIG,
                 asf_config, asfVars>>

\* start_processing with source type "ASF File" -> start_asf_processing
StartAsfProcessing ==
  /\ main_pc = "ready"
  /\ start_btn
  /\ pc = "idle"
  /\ asf_pc = "idle"
  /\ current_video.isStr
  /\ \E suf \in AsfSuffixes : EndsWith(Lower(current_video.chars), suf)
  /\ asf_config' = SetDebug(CopyConfig(DEFAULT_CONFIG, heap), TRUE)
  /\ heap' = HeapAfterCopy(heap, DEFAULT_CONFIG.classes)
  /\ asf_pc' = "open"
  /\ start_btn' = FALSE
  /\ pause_btn' = FALSE
  /\ stop_btn' = TRUE
  /\ UNCHANGED <<envVars, glitches_used, src_pos, video_thread, main_pc,
                 stop_returned, runs, orphans, queue, flagVars, pc, openVars,
                 loopVars, video_path, playback_speed, is_live_stream,
                 confidence, iou, DEFAULT_CONFIG, detection_config, events,
                 exit_path, asf_cap, asf_handles, asf_i, asf_attempts,
                 asf_failures, asf_frame_count>>

\* pause_processing -> VideoProcessor.pause
PauseProcessing ==
  /\ main_pc = "ready"
  /\ pause_btn
  /\ paused' = IF video_thread # "None" THEN ~paused ELSE paused
  /\ UNCHANGED <<envVars, glitches_used, src_pos, appVars, queue, running, pc,
                 openVars, loopVars, fieldVars, events, exit_path, asfVars>>

\* stop_processing up to self.wait() inside VideoProcessor.stop; without a
\* video_thread the handler runs to its end at once.
StopProcessing ==
  /\ main_pc = "ready"
  /\ stop_btn
  /\ IF video_thread # "None"
     THEN /\ running' = FALSE
          /\ main_pc' = "stopping"
          /\ UNCHANGED <<video_thread, start_btn, pause_btn, stop_btn, asf_pc>>
     ELSE /\ asf_pc' = Terminated(asf_pc)
          /\ OnProcessingFinished
          /\ UNCHANGED <<running, main_pc>>
  /\ UNCHANGED <<envVars, glitches_used, src_pos, stop_returned, runs, orphans,
                 queue, paused, pc, openVars, loopVars, fieldVars, events,
                 exit_path, asf_cap,
                 asf_handles, asf_i, asf_attempts, asf_failures, asf_frame_count>>

\* self.wait() returns once run has returned; the rest of stop_processing.
StopJoin ==
  /\ main_pc = "stopping"
  /\ pc = "done"
  /\ stop_returned' = stop_returned + 1
  /\ asf_pc' = Terminated(asf_pc)
  /\ OnProcessingFinished
  /\ main_pc' = "ready"
  /\ UNCHANGED <<envVars, glitches_used, src_pos, runs, orphans, queue, flagVars,
                 pc, openVars, loopVars, fieldVars, events, exit_path, asf_cap,
                 asf_handles,
                 asf_i, asf_attempts, asf_failures, asf_frame_count>>

\* The main thread runs the slot of the oldest queued terminal signal:
\* show_error, on_processing_finished, on_asf_processing_completed; each
\* ends in on_processing_finished.
DeliverSignal ==
  /\ main_pc = "ready"
  /\ queue # <<>>
  /\ queue' = Tail(queue)
  /\ OnProcessingFinished
  /\ UNCHANGED <<envVars, glitches_used, src_pos, main_pc, stop_returned, runs,
                 orphans, flagVars, pc, openVars, loopVars, fieldVars, events,
                 exit_path, asfVars>>

\* reset_counter: video_thread.reset_counter() clears the counter of the
\* worker, from the main thread; the button is never disabled.
ResetCounter ==
  /\ main_pc = "ready"
  /\ counts' = IF video_thread # "None" THEN 0 ELSE counts
  /\ UNCHANGED <<envVars, glitches_used, src_pos, appVars, queue, flagVars, pc,
                 openVars, total_frames, frame_count, consecutive_failures,
                 skip_residual, dispatched, failed_reads, failed_grabs,
                 stop_reads, stop_dispatches, fieldVars, events, exit_path,
                 asfVars>>

\* A worker that lost its place to a later one leaves run: through the
\* handler of an exception, or through cap.release() and finished_processing,
\* after the error of the ceiling or without one.
OrphanReturns ==
  /\ orphans > 0
  /\ orphans' = orphans - 1
  /\ \E sigs \in {<<"error_occurred">>, <<"finished_processing">>,
                   <<"error_occurred", "finished_processing">>} :
       queue' = queue \o sigs
  /\ UNCHANGED <<envVars, glitches_used, src_pos, video_thread, start_btn,
                 pause_btn, stop_btn, main_pc, stop_returned, runs, flagVars, pc,
                 openVars, loopVars, fieldVars, events, exit_path, asfVars>>

\* The steps of the worker that video_thread refers to.
WorkerRun ==
  \/ W_Init \/ W_InitRaise \/ W_OpenLive \/ W_OpenDefault
  \/ W_AsfOpen \/ W_AsfProbe \/ W_AsfAfter \/ W_CheckOpen \/ W_FirstFrame
  \/ W_LoopCheck \/ W_PauseCheck \/ W_PausedSpin \/ W_ReadFail \/ W_ReadOk
  \/ W_Process \/ W_ProcessRaise \/ W_Release \/ W_Finished

Worker == WorkerRun \/ OrphanReturns

AsfWorker == A_Open \/ A_Probe \/ A_After \/ A_Loop \/ A_Cleanup

Control ==
  \/ StartProcessing \/ StartAsfProcessing \/ PauseProcessing
  \/ StopProcessing \/ StopJoin \/ DeliverSignal \/ ResetCounter

Next == Worker \/ AsfWorker \/ Control

Spec == Init /\ [][Next]_vars

\* The worker is a thread of its own: the operating system keeps scheduling
\* it, and each of its steps (a capture call with its timeout, a read, a
\* dispatch, a sleep) returns.  Nothing is assumed about the user.
FairSpec == InitFair /\ [][Next]_vars /\ WF_vars(WorkerRun)


(***************************************************************************)
(* The operations of DetectionConfig on a configuration and a copy of it:  *)
(* "config" is DEFAULT_CONFIG and "c" is the copy a worker keeps in         *)
(* detection_config.  Each step is one call, or one edit of a list of      *)
(* classes, on one of the two.                                              *)
(***************************************************************************)
cfgRest == <<envVars, glitches_used, src_pos, appVars, queue, flagVars, pc,
             openVars, loopVars, video_path, playback_speed, is_live_stream,
             confidence, iou, events, exit_path, asfVars>>

\* The state after `import detection_config`: nothing was started.
ConfigInit == InitWith(ClipMp4, 2, 0, 0, 0, 0, SliderDefault)

Objects == {"config", "c"}

\* Arguments of the calls: below, inside and above what the setters keep.
ConfInputs == {5, 95}
IouInputs == {95}
DeviceInputs == {"cpu", "tpu"}
ZoneInputs == {30}
ClassIds == {2}

\* The configuration a name refers to.
Target(who) == IF who = "config" THEN DEFAULT_CONFIG ELSE detection_config

\* The name refers to a configuration.
Exists(who) == Target(who) # NoConfig

\* A call that replaces fields of the configuration `who` refers to.
Cfg_Set(who, val) ==
  /\ Exists(who)
  /\ IF who = "config"
     THEN DEFAULT_CONFIG' = val /\ UNCHANGED detection_config
     ELSE detection_config' = val /\ UNCHANGED DEFAULT_CONFIG
  /\ UNCHANGED <<heap, asf_config, cfgRest>>

\* c = config.copy()
Cfg_Copy ==
  /\ detection_config = NoConfig
  /\ detection_config' = CopyConfig(DEFAULT_CONFIG, heap)
  /\ heap' = HeapAfterCopy(heap, DEFAULT_CONFIG.classes)
  /\ UNCHANGED <<DEFAULT_CONFIG, asf_config, cfgRest>>

\* who.set_confidence(v)
SetConfidenceOn(who) ==
  \E v \in ConfInputs : Cfg_Set(who, SetConfidence(Target(who), v))

\* who.set_iou(v)
SetIouOn(who) == \E v \in IouInputs : Cfg_Set(who, SetIou(Target(who), v))

\* who.set_device(d)
SetDeviceOn(who) ==
  \E d \in DeviceInputs : Cfg_Set(who, SetDevice(Target(who), d))

\* who.set_debug(b)
SetDebugOn(who) == \E b \in BOOLEAN : Cfg_Set(who, SetDebug(Target(who), b))

\* who.detection_zone = z
SetZoneOn(who) ==
  \E z \in ZoneInputs :
    Cfg_Set(who, [Target(who) EXCEPT !.detection_zone = z])

\* The lists one edit makes of a list: an append or the removal of the last.
Edits(l) ==
  {Append(l, k) : k \in {i \in ClassIds : Len(l) < MaxClasses}}
    \cup {SubSeq(l, 1, Len(l) - 1) : n \in {i \in {0} : Len(l) > 0}}

\* who.classes.append(k) or who.classes.pop()
EditClassesOn(who) ==
  /\ Exists(who)
  /\ \E l \in Edits(heap[Target(who).classes]) :
       heap' = [heap EXCEPT ![Target(who).classes] = l]
  /\ UNCHANGED <<DEFAULT_CONFIG, detection_config, asf_config, cfgRest>>

Cfg_SetConfidence == \E who \in Objects : SetConfidenceOn(who)
Cfg_SetIou == \E who \in Objects : SetIouOn(who)
Cfg_SetDevice == \E who \in Objects : SetDeviceOn(who)
Cfg_SetDebug == \E who \in Objects : SetDebugOn(who)
Cfg_SetZone == \E who \in Objects : SetZoneOn(who)
Cfg_EditClasses == \E who \in Objects : EditClassesOn(who)

ConfigNext ==
  \/ Cfg_Copy \/ Cfg_SetConfidence \/ Cfg_SetIou \/ Cfg_SetDevice
  \/ Cfg_SetDebug \/ Cfg_SetZone \/ Cfg_EditClasses

ConfigSpec == ConfigInit /\ [][ConfigNext]_vars


(***************************************************************************)
(* Properties.                                                             *)
(***************************************************************************)
\* Number of signals of one kind emitted so far.
CountSig(sig) == Cardinality({i \in DOMAIN events : events[i].sig = sig})

\* The worker has returned from run.
RunEnded == pc = "done"

\* The ASF thread has returned from run or was terminated.
AsfEnded == asf_pc \in {"done", "killed"}

\* C1: in every terminated run no opened capture handle remains unreleased,
\* whichever way the worker (VideoProcessor or the ASF thread) ended.
C1_ReleasedOnEveryExit ==
  /\ RunEnded => handles = {}
  /\ AsfEnded => asf_handles = {}

\* C2: a run that emitted at least one frame and ended has emitted exactly
\* one terminal signal, error_occurred or finished_processing, never both
\* and never neither.
C2_ExactlyOneTerminal ==
  (RunEnded /\ CountSig("frame_ready") >= 1)
    => CountSig("error_occurred") + CountSig("finished_processing") = 1


\* C3: while the backends of a special-container file are negotiated at most
\* one opened capture is alive; when the first two candidates open and fail
\* the read probe, both are released before the third is opened, and the
\* third, once its probe passes, is the capture of the run.
C3_FallbackOneHandle ==
  /\ Cardinality(handles) <= 1
  /\ Cardinality(asf_handles) <= 1
  /\ (pc = "asf_probe" /\ attempts = <<"probefail", "probefail">>)
       => handles = {"ANY"}
  /\ (Len(attempts) >= 3 /\ SubSeq(attempts, 1, 3) = <<"probefail", "probefail", "ok">>)
       => (cap = Capture("ANY", TRUE) /\ handles \subseteq {"ANY"})
  /\ (asf_pc = "probe" /\ asf_attempts = <<"probefail", "probefail">>)
       => asf_handles = {"ANY"}
  /\ (Len(asf_attempts) >= 3
        /\ SubSeq(asf_attempts, 1, 3) = <<"probefail", "probefail", "ok">>)
       => (asf_cap = Capture("ANY", TRUE) /\ asf_handles \subseteq {"ANY"})

\* The third candidate was selected after two failed probes and is in use.
C3_Witness ==
  /\ attempts = <<"probefail", "probefail", "ok">>
  /\ pc = "body"
  /\ handles = {"ANY"}

\* C4: once a stop() call has returned, the worker has terminated and its
\* capture handle is released, whether the run ended by the stop itself, by
\* the failure ceiling or by an exception.
C4_StopReleases ==
  (stop_returned >= 1 /\ exit_path \in {"stop", "ceiling", "exception"})
    => (RunEnded /\ handles = {})

\* The case of C5: a source of 5 frames none of whose reads failed early.
C5_Case == src_avail = 5 /\ glitches_used = 0

\* C5 as stated: on such a source the frame counter stays at 5 from the
\* first failure on, the run ends after exactly 30 failed reads, and exactly
\* one error is emitted.
C5_CeilingAsStated ==
  C5_Case =>
    /\ (failed_reads + failed_grabs >= 1) => frame_count = 5
    /\ exit_path = "ceiling"
         => (failed_reads = 30 /\ CountSig("error_occurred") = 1)

\* C5, amended: the run ends after exactly 30 consecutive failed attempts,
\* at most one of them a skip-grab, with exactly one error; the frame counter
\* stays at 5 when the stream was rewound after the first-frame read (not
\* live, positive frame count) and at 4 otherwise.
C5_CeilingTermination ==
  C5_Case =>
    LET n == IF ~is_live_stream /\ total_frames > 0 THEN 5 ELSE 4
    IN /\ (failed_reads + failed_grabs >= 1) => frame_count = n
       /\ failed_grabs <= 1
       /\ failed_reads + failed_grabs <= 30
       /\ exit_path = "ceiling"
            => /\ failed_reads + failed_grabs = 30
               /\ CountSig("error_occurred") = 1
               /\ frame_count = n

\* A rewound file of 5 frames has run into the ceiling with the counter at 5.
C5_Witness ==
  /\ C5_Case
  /\ RunEnded
  /\ exit_path = "ceiling"
  /\ frame_count = 5
  /\ failed_reads = 30

(***************************************************************************)
(* The classification the design asks for (section 4.1 of the design).     *)
(***************************************************************************)
HasLiveScheme(p) == p.isStr /\ \E pre \in LiveSchemes : StartsWith(p.chars, pre)
IsDeviceZero(p) == p = IntZero \/ p = StrZero
HasLegacySuffix(p) ==
  p.isStr /\ \E suf \in AsfSuffixes : EndsWith(Lower(p.chars), suf)
WantedLive(p) == HasLiveScheme(p) \/ IsDeviceZero(p)

\* run has classified its source.
Classified == pc \notin {"idle", "init"}

\* The special-container negotiation was entered.
SpecialHandling == pc \in {"asf_open", "asf_probe", "asf_after"} \/ attempts # <<>>

\* C6: the error of the failure ceiling is the lost-connection message for
\* every stream and device source, the webcam index 0 included, and the
\* end-of-file message for every local file.
C6_CeilingMessageByKind ==
  exit_path = "ceiling" =>
    \A i \in DOMAIN events :
      events[i].sig = "error_occurred" =>
        events[i].msg = IF WantedLive(video_path)
                        THEN MsgLostConnection ELSE MsgEndOfFile

\* C7: device index 0 is classified as a live device source whether it is
\* given as the integer 0 or as the string "0".
C7_DeviceZeroIdentical ==
  (Classified /\ IsDeviceZero(video_path)) => is_live_stream

\* C8: a source is handled as live exactly when it has a network scheme or
\* is the device-0 token, as a special container exactly when it is not live
\* and ends in .asf or .wmv, and never as both.
C8_ClassificationRules ==
  Classified =>
    /\ is_live_stream <=> WantedLive(video_path)
    /\ SpecialHandling <=> (~WantedLive(video_path) /\ HasLegacySuffix(video_path))
    /\ ~(is_live_stream /\ SpecialHandling)

\* The progress_updated signals emitted so far, in order.
IsProgress(e) == e.sig = "progress_updated"
ProgressSignals == SelectSeq(events, IsProgress)

\* C9: in a file run at speed 1.0 whose frame count is exact, the progress
\* values never decrease, 100 is emitted at most once and exactly once when
\* every frame was delivered, and progress_completed is emitted exactly with
\* that 100, in the same iteration.
C9_ProgressMonotone ==
  (~is_live_stream /\ playback_speed = 2 /\ total_frames > 0
     /\ total_frames = src_avail) =>
    LET ps == ProgressSignals
        hundreds == Cardinality({k \in DOMAIN ps : ps[k].val = 100})
    IN
    /\ \A k \in 1..(Len(ps) - 1) : ps[k].val <= ps[k + 1].val
    /\ hundreds <= 1
    /\ frame_count = src_avail => hundreds = 1
    /\ CountSig("progress_completed") = hundreds
    /\ \A i \in DOMAIN events :
         events[i].sig = "progress_completed" =>
           /\ i > 1
           /\ events[i - 1].sig = "progress_updated"
           /\ events[i - 1].val = 100

\* The long file was played to its end at speed 1.0.
C9_Witness ==
  /\ ~is_live_stream /\ playback_speed = 2
  /\ total_frames = LongFrames /\ src_avail = LongFrames
  /\ frame_count = LongFrames
  /\ CountSig("progress_completed") = 1
  /\ RunEnded

\* The case of C10: a file run above speed 1.0 whose frame count is exact,
\* after the source was exhausted, no dispatch having raised.
C10_Case ==
  /\ ~is_live_stream /\ playback_speed > 2
  /\ total_frames > 0 /\ total_frames = src_avail
  /\ src_pos = src_avail
  /\ pc \in {"loop", "body", "read", "release", "finish", "done"}
  /\ exit_path # "exception"

FrameSignals ==
  {i \in DOMAIN events :
     events[i].sig \in {"frame_ready", "count_updated", "progress_updated",
                        "progress_completed"}}

\* The worker has not yet tested whether its capture is opened.
BeforeCheckOpen ==
  pc \in {"idle", "init", "open_live", "open_default", "asf_open", "asf_probe",
          "asf_after", "check_open"}

\* C11: a run without an opened, readable capture reports one error and
\* returns: it never enters the frame loop, never calls the consumer and
\* emits no frame_ready, count_updated or progress signal.
C11_NoFrameWithoutCapture ==
  /\ exit_path \in {"cannot_open", "first_frame"}
       => /\ RunEnded
          /\ dispatched = 0
          /\ frame_count = 0
          /\ Len(events) = 1
          /\ events[1].sig = "error_occurred"
          /\ events[1].msg = IF exit_path = "cannot_open"
                             THEN MsgCannotOpen ELSE MsgFirstFrame
  /\ ~cap.opened
       => /\ BeforeCheckOpen \/ RunEnded
          /\ dispatched = 0
          /\ FrameSignals = {}

\* A special-container file that no candidate and no default could open.
C11_Witness ==
  /\ exit_path = "cannot_open"
  /\ RunEnded
  /\ Len(attempts) = 4
  /\ events = <<Ev("error_occurred", 0, MsgCannotOpen)>>

\* The order of the candidates the design asks for.
WantedOrder == <<"FFMPEG", "DSHOW", "ANY">>

\* Outcomes of a candidate that was rejected.
Rejected == {"noopen", "raise", "probefail", "raise_read"}

\* C12: the candidates are tried in the order FFMPEG, DSHOW, ANY; the first
\* one that opens and passes the probe ends the negotiation: no later
\* candidate is opened, the default is not tried, and it is the capture of
\* the run.
C12_ShortCircuit ==
  /\ pc \in {"asf_open", "asf_probe"}
       => (backend_i = Len(attempts) + 1 /\ backend_i <= 3)
  /\ pc = "asf_probe" => cap = Capture(WantedOrder[Len(attempts) + 1], TRUE)
  /\ \A i \in DOMAIN attempts :
       attempts[i] = "ok"
         => /\ i = Len(attempts)
            /\ i <= 3
            /\ cap = Capture(WantedOrder[i], TRUE)
            /\ handles \subseteq {WantedOrder[i]}
            /\ \A j \in 1..(i - 1) : attempts[j] \in Rejected
  /\ asf_pc = "probe" => asf_cap = Capture(WantedOrder[Len(asf_attempts) + 1], TRUE)
  /\ \A i \in DOMAIN asf_attempts :
       asf_attempts[i] = "ok"
         => /\ i = Len(asf_attempts)
            /\ i <= 3
            /\ asf_cap = Capture(WantedOrder[i], TRUE)

\* The second candidate was accepted after the first did not open; the run
\* reads its frames from it.
C12_Witness ==
  /\ attempts = <<"noopen", "ok">>
  /\ cap = Capture("DSHOW", TRUE)
  /\ pc = "process"

\* Positions of the attempts with the default backend.
DefaultAttempts(att) ==
  {i \in DOMAIN att : att[i] \in {"default_opens", "default_noopen"}}

\* All three candidates were rejected.
AllRejected(att) == Len(att) >= 3 /\ \A i \in 1..3 : att[i] \in Rejected

\* C13: when every candidate was rejected exactly one attempt with the
\* default backend follows, and none otherwise; the run fails to open only
\* when the default does not open either, or opens and has no frame to read.
C13_DefaultFallbackOnce ==
  /\ Cardinality(DefaultAttempts(attempts)) <= 1
  /\ DefaultAttempts(attempts) # {}
       => (AllRejected(attempts) /\ DefaultAttempts(attempts) = {4})
  /\ (AllRejected(attempts) /\ pc # "asf_after") => DefaultAttempts(attempts) = {4}
  /\ (SpecialHandling /\ exit_path = "cannot_open")
       => (Len(attempts) = 4 /\ attempts[4] = "default_noopen")
  /\ (Len(attempts) = 4 /\ attempts[4] = "default_opens")
       => /\ exit_path # "cannot_open"
          /\ exit_path = "first_frame" => src_avail = 0
  /\ Cardinality(DefaultAttempts(asf_attempts)) <= 1
  /\ DefaultAttempts(asf_attempts) # {}
       => (AllRejected(asf_attempts) /\ DefaultAttempts(asf_attempts) = {4})
  /\ (AllRejected(asf_attempts) /\ asf_pc \notin {"after", "killed"})
       => DefaultAttempts(asf_attempts) = {4}

\* The three candidates were rejected in the three ways, the default opened
\* and the run reads its frames from it.
C13_Witness ==
  /\ attempts = <<"noopen", "probefail", "raise", "default_opens">>
  /\ cap = Capture("DEFAULT", TRUE)
  /\ pc = "process"


\* C14: no worker is started while an earlier one is alive: a start request
\* never leaves two workers alive, and never replaces the reference to a
\* worker that has not returned.
C14_OneWorkerAlive == orphans = 0


\* What a paused worker must leave alone: the capture position, the
\* dispatches, the frame and progress signals and the counters of the loop.
PauseFrozen ==
  /\ UNCHANGED <<src_pos, dispatched, frame_count, consecutive_failures,
                 skip_residual>>
  /\ FrameSignals' = FrameSignals

\* C15 as stated: in every step of a run that is not stopped, taken with the
\* paused flag set before and after it, no frame is read, grabbed or
\* dispatched, no frame or progress signal is emitted and the counters of the
\* loop keep their values.
C15_PausedAsStated ==
  [][(paused /\ paused' /\ running /\ running') => PauseFrozen]_vars

\* C15, amended: the same holds from the moment the worker is at the top of
\* an iteration, before its test of the paused flag, and the worker stays
\* there or leaves the loop; an iteration that had passed the test when the
\* flag was set is completed, and the reads of the opening phase do not look
\* at the flag.
C15_PausedAtLoopTop ==
  [][(paused /\ paused' /\ pc \in {"loop", "body"})
       => (PauseFrozen /\ pc' \in {"loop", "body", "release"})]_vars

\* A paused worker spins at the top of the loop with frames left to read,
\* after it has delivered one.
C15_Witness ==
  /\ paused /\ running
  /\ pc = "loop"
  /\ frame_count >= 1
  /\ FrameLeft
  /\ stop_reads = 0


\* C16: the paused flag changes only while a run is Running or Paused: once
\* the worker has returned from run, or before any was started, no step
\* changes the flag, except the start of a new worker, which clears it.
C16_ToggleOnlyWhileRunning ==
  [][(paused' # paused) => (WorkerAlive \/ pc' = "init")]_vars


\* C17: while the worker is alive no step of the control surface clears its
\* counter.
C17_NoResetWhileRunning ==
  [][(WorkerAlive /\ runs' = runs) => counts' >= counts]_vars

\* The frame_ready signals emitted so far, in order, each with the value of
\* the frame counter at which it was emitted.
IsFrameReady(e) == e.sig = "frame_ready"
FrameReadySignals == SelectSeq(events, IsFrameReady)

\* C18: the frame_ready signals of a run carry strictly increasing frame
\* counter values; every progress_completed comes after a frame_ready, after
\* every frame_ready of a smaller counter value, and before
\* finished_processing, which is the last signal of the run.
C18_EventOrder ==
  /\ LET fr == FrameReadySignals
     IN \A k \in 1..(Len(fr) - 1) : fr[k].val < fr[k + 1].val
  /\ \A k \in DOMAIN events :
       events[k].sig = "progress_completed"
         => /\ \E i \in 1..(k - 1) : events[i].sig = "frame_ready"
            /\ \A i \in DOMAIN events :
                 (events[i].sig = "frame_ready" /\ events[i].val < events[k].val)
                   => i < k
            /\ \A i \in (k + 1)..Len(events) :
                 events[i].sig = "frame_ready" => events[i].val >= events[k].val
            /\ \A j \in DOMAIN events :
                 events[j].sig = "finished_processing" => k < j
  /\ \A j \in DOMAIN events :
       events[j].sig = "finished_processing" => j = Len(events)

\* A run delivered several frames, completed its progress and finished.
C18_Witness ==
  /\ CountSig("frame_ready") >= 3
  /\ CountSig("progress_completed") >= 1
  /\ CountSig("finished_processing") = 1
  /\ RunEnded

\* C19: once running is False the worker completes at most the iteration it
\* is in: at most one more read and one more dispatch, whatever the paused
\* flag and the failure counter; a worker found inside the loop body has done
\* neither since the flag was cleared.
C19_StopWithinOneIteration ==
  /\ stop_reads <= 1
  /\ stop_dispatches <= 1
  /\ (~running /\ pc \in {"body", "read"})
       => (stop_reads = 0 /\ stop_dispatches = 0)
  /\ (~running /\ pc = "process") => stop_dispatches = 0
  /\ exit_path = "stop" => (~running /\ pc \in {"release", "finish", "done"})

\* A paused run was stopped in the middle of an iteration while failures
\* were being counted: the iteration was completed and the loop left.
C19_Witness ==
  /\ exit_path = "stop"
  /\ RunEnded
  /\ stop_reads = 1
  /\ stop_dispatches = 1
  /\ paused
  /\ handles = {}

\* C20: an exception raised in run ends the run with exactly one error,
\* the generic processing error, as its last signal; nothing is emitted
\* after it.
C20_ConsumerFailure ==
  exit_path = "exception"
    => /\ RunEnded
       /\ Len(events) >= 1
       /\ events[Len(events)] = Ev("error_occurred", 0, MsgProcessing)
       /\ CountSig("error_occurred") = 1
       /\ CountSig("finished_processing") = 0
       /\ CountSig("frame_ready") = dispatched

\* The consumer raised on the third frame.
C20_Witness ==
  /\ exit_path = "exception"
  /\ RunEnded
  /\ dispatched = 2
  /\ CountSig("frame_ready") = 2

\* C21: in a run over a file progress_completed is emitted at most once, in
\* the first iteration whose progress value is at least 100, whatever the
\* speed and whether or not the source delivers more frames than it reported.
C21_CompleteOnce ==
  ~is_live_stream =>
    /\ CountSig("progress_completed") <= 1
    /\ \A k \in DOMAIN events :
         events[k].sig = "progress_completed" =>
           /\ k > 1
           /\ events[k - 1].sig = "progress_updated"
           /\ events[k - 1].val >= 100
           /\ \A i \in 1..(k - 2) :
                events[i].sig = "progress_updated" => events[i].val < 100

\* The worker has read the properties of its capture (lines 212-217).
PropertiesRead ==
  \/ pc \in {"loop", "body", "read", "process", "release", "finish"}
  \/ exit_path \in {"first_frame", "ceiling", "stop"}
  \/ dispatched >= 1

\* C22: when the source reports a frame count of zero or less, total_frames
\* is -1, every progress_updated of the run carries 50 and progress_completed
\* is never emitted.
C22_IndeterminateProgress ==
  (src_reported <= 0 /\ PropertiesRead) =>
    /\ total_frames = -1
    /\ \A i \in DOMAIN events :
         events[i].sig = "progress_updated" => events[i].val = LiveProgress
    /\ CountSig("progress_completed") = 0
    /\ CountSig("progress_updated") = dispatched

\* A file that reports a negative frame count was played to the ceiling.
C22_Witness ==
  /\ src_reported < 0
  /\ ~is_live_stream
  /\ total_frames = -1
  /\ CountSig("progress_updated") >= 3
  /\ exit_path = "ceiling"
  /\ RunEnded

\* C23: in a run over a local file that is not handled as live the first
\* frame handed to the consumer is the first frame of the source: when the
\* first read of the frame loop has succeeded and nothing was dispatched
\* before, the capture has advanced by exactly one frame from the start.
C23_RewindBeforeLoop ==
  (~is_live_stream /\ IsVideoFile(video_path) /\ pc = "process"
     /\ dispatched = 0) => src_pos = 1

\* C24: the failure counter counts the failed reads and skip-grabs since the
\* last successful read and nothing else: it is 0 after every successful
\* read, it stays between 0 and 30, and the run ends with the ceiling error
\* only after a stretch of 30 uninterrupted failures.
C24_FailuresConsecutive ==
  /\ consecutive_failures \in 0..max_failures
  /\ consecutive_failures = failed_reads + failed_grabs
  /\ pc = "process" => consecutive_failures = 0
  /\ exit_path = "ceiling" => failed_reads + failed_grabs = max_failures
  /\ failed_reads + failed_grabs < max_failures => exit_path # "ceiling"

\* A read failed although a frame was left, a later read succeeded, and the
\* run went on to the ceiling with every dispatched frame counted.
C24_Witness ==
  /\ glitches_used >= 1
  /\ dispatched = src_avail
  /\ src_avail >= 2
  /\ exit_path = "ceiling"
  /\ consecutive_failures = max_failures
  /\ RunEnded

\* The worker is inside the frame loop.
InFrameLoop == pc \in {"loop", "body", "read", "process"}

\* C25: under fair scheduling of the worker a run whose running flag was
\* cleared by stop() terminates, paused or not; and, unless the run stays
\* paused for ever, a file run that has entered the frame loop terminates,
\* by the failure ceiling when it is neither stopped nor ended by an
\* exception (or it is replaced by a later run).
C25_Termination ==
  /\ (~running /\ WorkerAlive) ~> RunEnded
  /\ <>[](~paused) =>
       \A n \in 1..MaxRuns :
         (runs = n /\ ~is_live_stream /\ InFrameLoop)
           ~> \/ RunEnded /\ exit_path \in {"ceiling", "stop", "exception"}
              \/ runs > n

\* A paused file run was stopped while it was spinning at the top of the
\* loop, and has returned.
C25_Witness ==
  /\ exit_path = "stop"
  /\ paused
  /\ ~is_live_stream
  /\ stop_reads = 0
  /\ frame_count >= 1
  /\ RunEnded

\* What a finished negotiation leaves behind, as a function of the outcomes
\* of its attempts: the capture, the handles still open, and whether the
\* source counts as opened.
Negotiated(att) ==
  LET last == att[Len(att)]
  IN CASE last = "ok" ->
            [cap |-> Capture(backends[Len(att)], TRUE),
             handles |-> {backends[Len(att)]}, opened |-> TRUE]
       [] last = "default_opens" ->
            [cap |-> Capture("DEFAULT", TRUE), handles |-> {"DEFAULT"},
             opened |-> TRUE]
       [] OTHER ->
            [cap |-> Capture("DEFAULT", FALSE), handles |-> {}, opened |-> FALSE]

\* Outcomes that end a negotiation.
Final == {"ok", "default_opens", "default_noopen"}

\* C26: open_video and VideoProcessor.run negotiate alike: after the same
\* outcomes of the candidates and of the default fallback both hold the same
\* capture, have released the same handles and agree on whether the source
\* is opened.
C26_SameNegotiation ==
  /\ (pc = "check_open" /\ attempts # <<>>)
       => /\ attempts[Len(attempts)] \in Final
          /\ cap = Negotiated(attempts).cap
          /\ handles = Negotiated(attempts).handles
  /\ (pc = "first_frame" /\ attempts # <<>>) => Negotiated(attempts).opened
  /\ (exit_path = "cannot_open" /\ attempts # <<>>) => ~Negotiated(attempts).opened
  /\ asf_pc \in {"loop", "cleanup", "done"}
       => /\ asf_attempts # <<>>
          /\ asf_attempts[Len(asf_attempts)] \in Final
          /\ asf_cap = Negotiated(asf_attempts).cap
          /\ Negotiated(asf_attempts).opened <=> ~(asf_pc = "done" /\ asf_failures = 0)
  /\ (asf_pc = "loop" \/ (asf_pc = "done" /\ asf_failures = 0))
       => asf_handles = Negotiated(asf_attempts).handles

\* open_video accepted the third candidate after a constructor that raised
\* and a probe that failed, and process_video reads frames from it.
C26_Witness ==
  /\ asf_attempts = <<"raise", "probefail", "ok">>
  /\ asf_cap = Capture("ANY", TRUE)
  /\ asf_pc = "loop"
  /\ asf_frame_count >= 1

\* C27: in every frame the worker dispatches, the confidence and the IoU it
\* passes to the consumer (its own fields) equal those of its configuration.
C27_ParametersAgree ==
  dispatched >= 1
    => /\ confidence = detection_config.confidence
       /\ iou = detection_config.iou

\* The fields of a configuration, with the content of its list of classes.
View(cfg) == [cfg EXCEPT !.classes = heap[cfg.classes]]

\* One call or edit on the configuration `who` refers to.
CallOn(who) ==
  \/ SetConfidenceOn(who) \/ SetIouOn(who) \/ SetDeviceOn(who)
  \/ SetDebugOn(who) \/ SetZoneOn(who) \/ EditClassesOn(who)

\* C28: a copy is independent of its original: copy() yields a configuration
\* with the fields of the original and leaves the original as it was; every
\* later call or edit on the copy leaves every field of the original
\* unchanged, and every call or edit on the original leaves the copy
\* unchanged.
C28_CopyIndependent ==
  [][/\ Cfg_Copy => /\ View(DEFAULT_CONFIG)' = View(DEFAULT_CONFIG)
                    /\ View(detection_config)' = View(DEFAULT_CONFIG)
     /\ CallOn("c") => View(DEFAULT_CONFIG)' = View(DEFAULT_CONFIG)
     /\ (CallOn("config") /\ Exists("c"))
          => View(detection_config)' = View(detection_config)]_vars

\* The copy was changed in every field a call can change while the original
\* is as it was built.
C28_Witness ==
  /\ Exists("c")
  /\ View(DEFAULT_CONFIG) = [DetectionConfig(1) EXCEPT !.classes = DefaultClasses]
  /\ detection_config.confidence = 90
  /\ detection_config.iou = 90
  /\ detection_config.device = "cpu"
  /\ detection_config.debug
  /\ detection_config.detection_zone = 30
  /\ heap[detection_config.classes] = <<0, 2>>

\* C29: in a file run above speed 1.0, as long as no skip-grab has failed,
\* the residual is at least 0 and less than 1 after every iteration and the
\* frames skipped in the first k iterations number floor(k * (s - 1)); in a
\* run over a live source or at speed 1.0 or below the residual stays 0 and
\* no frame is skipped.
C29_SkipResidual ==
  /\ (is_live_stream \/ playback_speed <= 2)
       => (skip_residual = 0 /\ frame_count = dispatched)
  /\ (~is_live_stream /\ playback_speed > 2 /\ failed_grabs = 0)
       => /\ skip_residual \in 0..1
          /\ frame_count - dispatched
               = (dispatched * (playback_speed - 2)) \div 2

\* Three iterations at 1.5x: one frame was skipped and half a frame is left
\* in the residual.
C29_Witness ==
  /\ ~is_live_stream
  /\ playback_speed = 3
  /\ dispatched = 3
  /\ frame_count = 4
  /\ skip_residual = 1
  /\ failed_grabs = 0

\* C30: while the worker is alive the control surface holds the reference to
\* it and keeps Start disabled: no terminal signal clears video_thread or
\* enables Start before the worker has returned.
C30_ReferenceTracksWorker ==
  WorkerAlive => (video_thread = "vp" /\ ~start_btn)

====
